---- MODULE Spec2Model ----
(***************************************************************************)
(* Model of the competitive math quiz backend: StateManager (round state), *)
(* QuestionGenerator (generate / validate), StateMachineLogger (lifecycle) *)
(* and the socket handlers that tie them together (the Hub).               *)
(***************************************************************************)
EXTENDS Integers, Sequences, FiniteSets, TLC

VARIABLES
  stateManager,    \* const stateManager = new StateManager()
  stateMachine,    \* const stateMachine = new StateMachineLogger()
  questionTimeout, \* let questionTimeout = null (handle of the last rotation timer)
  timers,          \* the runtime's pending setTimeout callbacks, in creation order
  connectedUsers,  \* server.js: const connectedUsers = new Map() (its key set)
  closed,          \* socket ids whose connection has ended (ids are never reused)
  listening,       \* setupSocketHandlers(io) has run
  crashed,         \* an exception escaped an event listener
  now,             \* Date.now(), in milliseconds since process start
  questionCount,   \* number of questions generated so far
  ev,              \* the event or call handled by the last step
  emitted,         \* the messages the last step emitted, in order
  returned,        \* the value the last StateManager call returned
  log              \* the round's announcements: its new-question, then every
                   \* winner-declared and you-won emitted since

vars == <<stateManager, stateMachine, questionTimeout, timers,
          connectedUsers, closed, listening, crashed, now, questionCount,
          ev, emitted, returned, log>>

(***************************************************************************)
(* Bounds of the model.                                                    *)
(***************************************************************************)
MaxSockets == 2      \* socket ids that ever connect
MaxQuestions == 2    \* questions generated in one run
MaxTick == 1         \* up to this instant the clock also steps by single milliseconds
MaxDraw == 0         \* a random draw takes one of its MaxDraw + 1 lowest values
MaxSpread == 1       \* a sampled operand is within MaxSpread of an end of its range

(***************************************************************************)
(* JavaScript values.                                                      *)
(***************************************************************************)
NULL == [t |-> "null"]
UNDEFINED == [t |-> "undefined"]
Str(s) == [t |-> "string", s |-> s]
\* the number n / 10^k
Num(n, k) == [t |-> "number", n |-> n, k |-> k]
NaN == [t |-> "number", nan |-> TRUE]
Bool(b) == [t |-> "boolean", b |-> b]
IsNaN(v) == "nan" \in DOMAIN v

DigitChars == <<"0", "1", "2", "3", "4", "5", "6", "7", "8", "9">>
IsDigit(c) == \E i \in 1..10 : DigitChars[i] = c
DigitVal(c) == (CHOOSE i \in 1..10 : DigitChars[i] = c) - 1
IsWhiteSpace(c) == c \in {" ", "\t", "\n"}

RECURSIVE Pow10(_)
Pow10(k) == IF k = 0 THEN 1 ELSE 10 * Pow10(k - 1)

Abs(x) == IF x < 0 THEN -x ELSE x

RECURSIVE TrimStart(_)
TrimStart(s) ==
  IF s /= <<>> /\ IsWhiteSpace(Head(s)) THEN TrimStart(Tail(s)) ELSE s

RECURSIVE TrimEnd(_)
TrimEnd(s) ==
  IF s /= <<>> /\ IsWhiteSpace(s[Len(s)])
    THEN TrimEnd(SubSeq(s, 1, Len(s) - 1))
    ELSE s

RECURSIVE DigitsToNat(_)
DigitsToNat(s) ==
  IF s = <<>> THEN 0
  ELSE 10 * DigitsToNat(SubSeq(s, 1, Len(s) - 1)) + DigitVal(s[Len(s)])

RECURSIVE NatToDigits(_)
NatToDigits(n) ==
  IF n < 10 THEN <<DigitChars[n + 1]>>
  ELSE Append(NatToDigits(n \div 10), DigitChars[(n % 10) + 1])

\* String(n) for an integer n
IntToString(n) == IF n < 0 THEN <<"-">> \o NatToDigits(-n) ELSE NatToDigits(n)

\* StringToNumber, for the decimal literals  [+-] digits [. digits]  and
\* [+-] . digits : leading and trailing white space is dropped, the empty string
\* is 0, and every other text is NaN.
Decimal(digits, k) ==
  IF digits = <<>> \/ \E i \in 1..Len(digits) : ~IsDigit(digits[i])
    THEN NaN
    ELSE Num(DigitsToNat(digits), k)

SplitAtDot(body, dot) ==
  Decimal(SubSeq(body, 1, dot - 1) \o SubSeq(body, dot + 1, Len(body)),
          IF dot > Len(body) THEN 0 ELSE Len(body) - dot)

FirstDot(body) ==
  IF \E i \in 1..Len(body) : body[i] = "."
    THEN CHOOSE i \in 1..Len(body) :
           body[i] = "." /\ \A j \in 1..(i - 1) : body[j] /= "."
    ELSE Len(body) + 1

Unsigned(body) == SplitAtDot(body, FirstDot(body))

Negated(v) == IF IsNaN(v) THEN v ELSE Num(-v.n, v.k)

StrDecimalLiteral(s) ==
  IF s = <<>> THEN Num(0, 0)
  ELSE IF Head(s) = "-" THEN Negated(Unsigned(Tail(s)))
  ELSE IF Head(s) = "+" THEN Unsigned(Tail(s))
  ELSE Unsigned(s)

StringToNumber(str) == StrDecimalLiteral(TrimEnd(TrimStart(str)))

\* Number(value)
ToNumber(v) ==
  CASE v.t = "number" -> v
    [] v.t = "string" -> StringToNumber(v.s)
    [] v.t = "boolean" -> Num(IF v.b THEN 1 ELSE 0, 0)
    [] v.t = "null" -> Num(0, 0)
    [] OTHER -> NaN

(***************************************************************************)
(* QuestionGenerator                                                       *)
(***************************************************************************)
TOLERANCE_DIGITS == 4   \* Math.abs(...) < 0.0001 = 10^-4

\* Math.abs(parsedAnswer - correctAnswer) < 0.0001, in exact arithmetic
WithinTolerance(parsedAnswer, correctAnswer) ==
  Abs(parsedAnswer.n - correctAnswer * Pow10(parsedAnswer.k)) * Pow10(TOLERANCE_DIGITS)
    < Pow10(parsedAnswer.k)

NumberMatches(parsedAnswer, correctAnswer) ==
  IF IsNaN(parsedAnswer) THEN FALSE ELSE WithinTolerance(parsedAnswer, correctAnswer)

validate(userAnswer, correctAnswer) ==
  IF userAnswer = NULL \/ userAnswer = UNDEFINED \/ userAnswer = Str(<<>>)
    THEN FALSE
    ELSE NumberMatches(ToNumber(userAnswer), correctAnswer)

MULTIPLICATION_CAP == 20

Difficulties == {"easy", "medium", "hard"}

\* A configuration whose easy level also offers multiplication.
difficultyLevelsEasyTimes ==
  [easy   |-> [minNumber |-> 1,  maxNumber |-> 50,  operators |-> <<"+", "-", "*">>],
   medium |-> [minNumber |-> 1,  maxNumber |-> 100, operators |-> <<"+", "-", "*">>],
   hard   |-> [minNumber |-> 10, maxNumber |-> 100, operators |-> <<"+", "-", "*">>]]

difficultyLevels ==
  [easy   |-> [minNumber |-> 1,  maxNumber |-> 50,  operators |-> <<"+", "-">>],
   medium |-> [minNumber |-> 1,  maxNumber |-> 100, operators |-> <<"+", "-", "*">>],
   hard   |-> [minNumber |-> 10, maxNumber |-> 100, operators |-> <<"+", "-", "*">>]]

Min(a, b) == IF a < b THEN a ELSE b

operation(symbol, a, b) ==
  CASE symbol = "+" -> a + b
    [] symbol = "-" -> a - b
    [] symbol = "*" -> a * b

\* The values of getRandomNumber(min, max) sampled when the Hub generates a question.
RandomNumbers(min, max) == min .. Min(max, min + MaxDraw)

\* getRandomOperator(difficulty): operators[Math.floor(Math.random() * length)],
\* sampled likewise.
RandomOperators(operators) ==
  { operators[i] : i \in 1 .. Min(Len(operators), MaxDraw + 1) }

\* The values Math.random().toString(36).substr(2, 9) is drawn from in this model.
RandomSuffixes == 0 .. MaxDraw

\* A generate that computes the answer before it redraws the operands of a
\* multiplication.
generateAnswersFirstDraw(difficulty, d1, d2, symbol, m1, m2, sfx, t) ==
  LET swap == symbol = "-" /\ d1 < d2
      s1 == IF swap THEN d2 ELSE d1
      s2 == IF swap THEN d1 ELSE d2
      num1 == IF symbol = "*" THEN m1 ELSE s1
      num2 == IF symbol = "*" THEN m2 ELSE s2
  IN  [id |-> <<t, sfx>>,
       question |-> <<num1, symbol, num2>>,
       answer |-> operation(symbol, s1, s2),
       operands |-> [num1 |-> num1, num2 |-> num2],
       operator |-> symbol,
       difficulty |-> difficulty,
       generatedAt |-> t]

\* A generate that keeps the operands of a subtraction in the order drawn.
generateNoSwap(difficulty, d1, d2, symbol, m1, m2, sfx, t) ==
  LET num1 == IF symbol = "*" THEN m1 ELSE d1
      num2 == IF symbol = "*" THEN m2 ELSE d2
  IN  [id |-> <<t, sfx>>,
       question |-> <<num1, symbol, num2>>,
       answer |-> operation(symbol, num1, num2),
       operands |-> [num1 |-> num1, num2 |-> num2],
       operator |-> symbol,
       difficulty |-> difficulty,
       generatedAt |-> t]

\* generate(difficulty) for a valid difficulty, given its random draws: d1, d2 the
\* first two operands, symbol the operator, m1, m2 the operands redrawn for a
\* multiplication, sfx the id suffix, and t = Date.now().
generate(difficulty, d1, d2, symbol, m1, m2, sfx, t) ==
  LET swap == symbol = "-" /\ d1 < d2
      s1 == IF swap THEN d2 ELSE d1
      s2 == IF swap THEN d1 ELSE d2
      num1 == IF symbol = "*" THEN m1 ELSE s1
      num2 == IF symbol = "*" THEN m2 ELSE s2
  IN  [id |-> <<t, sfx>>,
       question |-> <<num1, symbol, num2>>,
       answer |-> operation(symbol, num1, num2),
       operands |-> [num1 |-> num1, num2 |-> num2],
       operator |-> symbol,
       difficulty |-> difficulty,
       generatedAt |-> t]

\* Every Question generate(difficulty) can return at time t.
Questions(difficulty, t) ==
  LET config == difficultyLevels[difficulty]
      first == RandomNumbers(config.minNumber, config.maxNumber)
      redraw == RandomNumbers(config.minNumber,
                              Min(config.maxNumber, MULTIPLICATION_CAP))
  IN  { generate(difficulty, d1, d2, symbol, m1, m2, sfx, t) :
          d1 \in first, d2 \in first, symbol \in RandomOperators(config.operators),
          m1 \in redraw, m2 \in redraw, sfx \in RandomSuffixes }

(***************************************************************************)
(* StateManager                                                            *)
(***************************************************************************)
DEFAULT_GRACE_PERIOD_MS == 100

SocketIds == { [sid |-> i] : i \in 1..MaxSockets }

EmptyMap == [s \in {} |-> NULL]

\* new StateManager()
NewStateManager ==
  [currentQuestion |-> NULL,
   currentWinner |-> NULL,
   isLocked |-> FALSE,
   submissions |-> EmptyMap,
   submissionOrder |-> <<>>,
   GRACE_PERIOD_MS |-> DEFAULT_GRACE_PERIOD_MS]

\* A setQuestion that starts a new round on the question of the round before.
setQuestionKeepsQuestion(sm, question) ==
  [sm EXCEPT !.currentWinner = NULL,
             !.isLocked = FALSE,
             !.submissions = EmptyMap,
             !.submissionOrder = <<>>]

\* A setQuestion that leaves the submissions of the round before in place.
setQuestionKeepsSubmissions(sm, question) ==
  [sm EXCEPT !.currentQuestion = question,
             !.currentWinner = NULL,
             !.isLocked = FALSE]

\* A setQuestion that leaves the lock as it is.
setQuestionKeepsLock(sm, question) ==
  [sm EXCEPT !.currentQuestion = question,
             !.currentWinner = NULL,
             !.submissions = EmptyMap,
             !.submissionOrder = <<>>]

setQuestion(sm, question) ==
  [sm EXCEPT !.currentQuestion = question,
             !.currentWinner = NULL,
             !.isLocked = FALSE,
             !.submissions = EmptyMap,
             !.submissionOrder = <<>>]

\* A hasSubmitted that never finds a Submission.
hasSubmittedNever(sm, socketId) == FALSE

hasSubmitted(sm, socketId) == socketId \in DOMAIN sm.submissions

\* Variants of recordSubmission: one without the lock check, one that looks for an
\* earlier Submission before it looks at the lock, and one that looks for the
\* question first.
recordSubmissionUnlocked(sm, socketId, answer, timestamp) ==
  IF hasSubmitted(sm, socketId)
    THEN [sm |-> sm, result |-> [success |-> FALSE, reason |-> "already-submitted"]]
  ELSE IF sm.currentQuestion = NULL
    THEN [sm |-> sm, result |-> [success |-> FALSE, reason |-> "no-question"]]
  ELSE [sm |-> [sm EXCEPT
                  !.submissions =
                     (socketId :> [answer |-> answer, timestamp |-> timestamp]) @@ @,
                  !.submissionOrder =
                     Append(@, [socketId |-> socketId, timestamp |-> timestamp])],
        result |-> [success |-> TRUE, timestamp |-> timestamp]]

recordSubmissionDuplicateFirst(sm, socketId, answer, timestamp) ==
  IF hasSubmitted(sm, socketId)
    THEN [sm |-> sm, result |-> [success |-> FALSE, reason |-> "already-submitted"]]
  ELSE IF sm.isLocked
    THEN [sm |-> sm, result |-> [success |-> FALSE, reason |-> "question-locked"]]
  ELSE IF sm.currentQuestion = NULL
    THEN [sm |-> sm, result |-> [success |-> FALSE, reason |-> "no-question"]]
  ELSE [sm |-> [sm EXCEPT
                  !.submissions =
                     (socketId :> [answer |-> answer, timestamp |-> timestamp]) @@ @,
                  !.submissionOrder =
                     Append(@, [socketId |-> socketId, timestamp |-> timestamp])],
        result |-> [success |-> TRUE, timestamp |-> timestamp]]

recordSubmissionNoQuestionFirst(sm, socketId, answer, timestamp) ==
  IF sm.currentQuestion = NULL
    THEN [sm |-> sm, result |-> [success |-> FALSE, reason |-> "no-question"]]
  ELSE IF sm.isLocked
    THEN [sm |-> sm, result |-> [success |-> FALSE, reason |-> "question-locked"]]
  ELSE IF hasSubmitted(sm, socketId)
    THEN [sm |-> sm, result |-> [success |-> FALSE, reason |-> "already-submitted"]]
  ELSE [sm |-> [sm EXCEPT
                  !.submissions =
                     (socketId :> [answer |-> answer, timestamp |-> timestamp]) @@ @,
                  !.submissionOrder =
                     Append(@, [socketId |-> socketId, timestamp |-> timestamp])],
        result |-> [success |-> TRUE, timestamp |-> timestamp]]

\* Each method that both changes the manager and returns a value is an operator
\* giving [sm |-> the manager afterwards, result |-> the value returned].
recordSubmission(sm, socketId, answer, timestamp) ==
  IF sm.isLocked
    THEN [sm |-> sm, result |-> [success |-> FALSE, reason |-> "question-locked"]]
  ELSE IF hasSubmitted(sm, socketId)
    THEN [sm |-> sm, result |-> [success |-> FALSE, reason |-> "already-submitted"]]
  ELSE IF sm.currentQuestion = NULL
    THEN [sm |-> sm, result |-> [success |-> FALSE, reason |-> "no-question"]]
  ELSE [sm |-> [sm EXCEPT
                  !.submissions =
                     (socketId :> [answer |-> answer, timestamp |-> timestamp]) @@ @,
                  !.submissionOrder =
                     Append(@, [socketId |-> socketId, timestamp |-> timestamp])],
        result |-> [success |-> TRUE, timestamp |-> timestamp]]

\* Variants of attemptWin: one that lets a later correct answer take the round
\* over, one that names the winner without taking the lock, and one that lets any
\* answer win.
attemptWinReplaces(sm, socketId, isCorrect) ==
  IF isCorrect
    THEN [sm |-> [sm EXCEPT !.isLocked = TRUE, !.currentWinner = socketId],
          result |-> TRUE]
    ELSE [sm |-> sm, result |-> FALSE]

attemptWinNoLock(sm, socketId, isCorrect) ==
  IF sm.isLocked
    THEN [sm |-> sm, result |-> FALSE]
  ELSE IF isCorrect
    THEN [sm |-> [sm EXCEPT !.currentWinner = socketId], result |-> TRUE]
  ELSE [sm |-> sm, result |-> FALSE]

attemptWinAnyAnswer(sm, socketId, isCorrect) ==
  IF sm.isLocked
    THEN [sm |-> sm, result |-> FALSE]
    ELSE [sm |-> [sm EXCEPT !.isLocked = TRUE, !.currentWinner = socketId],
          result |-> TRUE]

\* An attemptWin that takes a wrong answer back, so that its sender may retry.
attemptWinAllowsRetry(sm, socketId, isCorrect) ==
  IF sm.isLocked
    THEN [sm |-> sm, result |-> FALSE]
  ELSE IF isCorrect
    THEN [sm |-> [sm EXCEPT !.isLocked = TRUE, !.currentWinner = socketId],
          result |-> TRUE]
  ELSE [sm |-> [sm EXCEPT
                  !.submissions = [s \in DOMAIN @ \ {socketId} |-> @[s]],
                  !.submissionOrder = SelectSeq(@, LAMBDA e : e.socketId /= socketId)],
        result |-> FALSE]

attemptWin(sm, socketId, isCorrect) ==
  IF sm.isLocked
    THEN [sm |-> sm, result |-> FALSE]
  ELSE IF isCorrect
    THEN [sm |-> [sm EXCEPT !.isLocked = TRUE, !.currentWinner = socketId],
          result |-> TRUE]
  ELSE [sm |-> sm, result |-> FALSE]

getSubmission(sm, socketId) ==
  IF socketId \in DOMAIN sm.submissions THEN sm.submissions[socketId] ELSE UNDEFINED

\* A reset that forgets the question and the submissions but not the winner.
resetKeepsWinner(sm) ==
  [sm EXCEPT !.currentQuestion = NULL,
             !.submissions = EmptyMap,
             !.submissionOrder = <<>>]

reset(sm) ==
  [sm EXCEPT !.currentQuestion = NULL,
             !.currentWinner = NULL,
             !.isLocked = FALSE,
             !.submissions = EmptyMap,
             !.submissionOrder = <<>>]

\* Array.prototype.sort((a, b) => a.timestamp - b.timestamp): stable, so entries
\* of equal timestamp keep their order.  Built by inserting each entry after
\* the entries already placed whose timestamp is not larger.
InsertByTimestamp(sorted, entry) ==
  SubSeq(sorted, 1, Cardinality({ i \in DOMAIN sorted :
                                    sorted[i].timestamp <= entry.timestamp }))
    \o << entry >>
    \o SubSeq(sorted,
              Cardinality({ i \in DOMAIN sorted :
                              sorted[i].timestamp <= entry.timestamp }) + 1,
              Len(sorted))

\* A sort that puts an entry before the entries of equal timestamp.
SortByTimestampUnstable(entries) ==
  LET before(i) == { j \in DOMAIN entries :
                       \/ entries[j].timestamp < entries[i].timestamp
                       \/ entries[j].timestamp = entries[i].timestamp /\ j > i }
  IN  [k \in DOMAIN entries |->
         entries[CHOOSE i \in DOMAIN entries : Cardinality(before(i)) = k - 1]]

RECURSIVE SortByTimestamp(_)
SortByTimestamp(entries) ==
  IF entries = <<>>
    THEN <<>>
    ELSE InsertByTimestamp(SortByTimestamp(SubSeq(entries, 1, Len(entries) - 1)),
                           entries[Len(entries)])

\* The array the accessor returns from the sorted order list.
OrderedSubmissions(sm, sorted) ==
  [i \in DOMAIN sorted |->
     [socketId |-> sorted[i].socketId,
      timestamp |-> sm.submissions[sorted[i].socketId].timestamp,
      answer |-> sm.submissions[sorted[i].socketId].answer]]

\* getSubmissionsInOrder(): this.submissionOrder.sort(...) sorts the array of the
\* StateManager itself, then maps it.
getSubmissionsInOrder(sm) ==
  [sm |-> [sm EXCEPT !.submissionOrder = SortByTimestamp(@)],
   result |-> OrderedSubmissions(sm, SortByTimestamp(sm.submissionOrder))]

GracePeriodEntries(sorted, gracePeriodEnd) ==
  SelectSeq(sorted, LAMBDA entry : entry.timestamp <= gracePeriodEnd)

\* getGracePeriodSubmissions(): sorts the order list in place as well.
getGracePeriodSubmissions(sm) ==
  IF sm.submissionOrder = <<>>
    THEN [sm |-> sm, result |-> <<>>]
    ELSE [sm |-> [sm EXCEPT !.submissionOrder = SortByTimestamp(@)],
          result |-> GracePeriodEntries(
                       SortByTimestamp(sm.submissionOrder),
                       SortByTimestamp(sm.submissionOrder)[1].timestamp
                         + sm.GRACE_PERIOD_MS)]

\* getState(): a snapshot; the submissions are listed without their order.
getState(sm) ==
  [sm |-> sm,
   result |-> [question |-> sm.currentQuestion,
               winner |-> sm.currentWinner,
               isLocked |-> sm.isLocked,
               submissionCount |-> Cardinality(DOMAIN sm.submissions),
               submissions |-> { [socketId |-> s,
                                  answer |-> sm.submissions[s].answer,
                                  timestamp |-> sm.submissions[s].timestamp] :
                                 s \in DOMAIN sm.submissions },
               gracePeriodMs |-> sm.GRACE_PERIOD_MS]]

\* getStats(): calls getGracePeriodSubmissions().
getStats(sm) ==
  [sm |-> getGracePeriodSubmissions(sm).sm,
   result |-> [totalSubmissions |-> Cardinality(DOMAIN sm.submissions),
               hasWinner |-> sm.currentWinner /= NULL,
               isLocked |-> sm.isLocked,
               questionId |-> IF sm.currentQuestion = NULL
                                THEN NULL ELSE sm.currentQuestion.id,
               gracePeriodSubmissions |-> Len(getGracePeriodSubmissions(sm).result)]]

Thrown(message) == [threw |-> "Error", message |-> message]

\* A setGracePeriod without the check of the sign.
setGracePeriodUnchecked(sm, milliseconds) ==
  [sm |-> [sm EXCEPT !.GRACE_PERIOD_MS = milliseconds], result |-> UNDEFINED]

\* setGracePeriod(milliseconds)
setGracePeriod(sm, milliseconds) ==
  IF milliseconds < 0
    THEN [sm |-> sm, result |-> Thrown("Grace period must be non-negative")]
    ELSE [sm |-> [sm EXCEPT !.GRACE_PERIOD_MS = milliseconds], result |-> UNDEFINED]

\* getGracePeriod()
getGracePeriod(sm) == [sm |-> sm, result |-> sm.GRACE_PERIOD_MS]

(***************************************************************************)
(* StateMachineLogger                                                      *)
(***************************************************************************)
States == {"IDLE", "ACTIVE", "LOCKED", "TRANSITIONING"}

validTransitions ==
  [IDLE |-> {"ACTIVE"},
   ACTIVE |-> {"LOCKED", "IDLE"},
   LOCKED |-> {"TRANSITIONING"},
   TRANSITIONING |-> {"ACTIVE", "IDLE"}]

\* new StateMachineLogger()
NewStateMachineLogger ==
  [currentState |-> "IDLE", stateHistory |-> <<>>, transitionCount |-> 0]

\* A transition that leaves the entry into LOCKED out.
transitionSkipsLocked(m, newState) ==
  IF newState = "LOCKED"
    THEN m
    ELSE [m EXCEPT !.transitionCount = @ + 1,
                   !.stateHistory = Append(@, [from |-> m.currentState, to |-> newState]),
                   !.currentState = newState]

\* transition(newState): an invalid transition is warned about, then recorded and
\* performed like a valid one.
transition(m, newState) ==
  [m EXCEPT !.transitionCount = @ + 1,
            !.stateHistory = Append(@, [from |-> m.currentState, to |-> newState]),
            !.currentState = newState]

(***************************************************************************)
(* The runtime: clock and timers                                           *)
(***************************************************************************)
WINNER_DISPLAY_DURATION == 3000
HANDOFF_DELAY == 100
DEFAULT_DIFFICULTY == "medium"

\* Timer handles are objects; a new one is any handle not in use, here the least.
Handle(n) == [timer |-> n]

HandlesInUse(pool, held) == { pool[i].handle : i \in 1..Len(pool) } \cup held

NewHandle(pool, held) ==
  Handle(CHOOSE n \in 1..(Len(pool) + Cardinality(held) + 1) :
           /\ Handle(n) \notin HandlesInUse(pool, held)
           /\ \A k \in 1..(n - 1) : Handle(k) \in HandlesInUse(pool, held))

\* A setTimeout that forgets the delay.
setTimeoutNoDelay(pool, handle, callback, delay, t) ==
  Append(pool, [handle |-> handle, callback |-> callback, at |-> t])

\* setTimeout(callback, delay): the pool with the new timer appended
setTimeout(pool, handle, callback, delay, t) ==
  Append(pool, [handle |-> handle, callback |-> callback, at |-> t + delay])

\* A clearTimeout that cancels nothing.
clearTimeoutNoop(pool, handle) == pool

\* A clearTimeout that cancels the timer only when it is the oldest of the pool.
clearTimeoutOldest(pool, handle) ==
  IF pool /= <<>> /\ pool[1].handle = handle
    THEN SubSeq(pool, 2, Len(pool))
    ELSE pool

\* clearTimeout(handle): the pool without that timer (no effect for null or for
\* a timer that has already fired)
clearTimeout(pool, handle) ==
  SelectSeq(pool, LAMBDA tm : tm.handle /= handle)

RemoveAt(seq, i) == SubSeq(seq, 1, i - 1) \o SubSeq(seq, i + 1, Len(seq))

\* The timer the runtime runs next: due, no pending timer expires before it, and
\* among timers expiring together the one created first.
IsNextTimer(i) ==
  /\ i \in 1..Len(timers)
  /\ timers[i].at <= now
  /\ \A j \in 1..Len(timers) :
        \/ timers[j].at > timers[i].at
        \/ (timers[j].at = timers[i].at /\ j >= i)

Deadlines == { timers[i].at : i \in 1..Len(timers) }

(***************************************************************************)
(* Messages                                                                *)
(***************************************************************************)
\* socket.emit(event, payload) has to = {socket.id}; io.emit(event, payload) has
\* to = the sockets connected at that moment.  Payloads keep the fields the
\* handlers compute from state (message texts and send times are left out).
Msg(to, event, payload) == [to |-> to, event |-> event, payload |-> payload]

Announcements == {"new-question", "winner-declared", "you-won"}

Announced(msgs) == SelectSeq(msgs, LAMBDA m : m.event \in Announcements)

\* A sendCurrentQuestionToUser that withholds the question of a locked round.
sendCurrentQuestionToUserOpenOnly(sm, socketId) ==
  IF sm.currentQuestion /= NULL /\ ~sm.isLocked
    THEN Msg({socketId}, "current-question",
             [question |-> sm.currentQuestion.question,
              questionId |-> sm.currentQuestion.id,
              difficulty |-> sm.currentQuestion.difficulty])
    ELSE Msg({socketId}, "waiting-for-question", [waiting |-> TRUE])

\* sendCurrentQuestionToUser(socket)
sendCurrentQuestionToUser(sm, socketId) ==
  IF sm.currentQuestion /= NULL
    THEN Msg({socketId}, "current-question",
             [question |-> sm.currentQuestion.question,
              questionId |-> sm.currentQuestion.id,
              difficulty |-> sm.currentQuestion.difficulty])
    ELSE Msg({socketId}, "waiting-for-question", [waiting |-> TRUE])

NewQuestionMsg(to, q) ==
  Msg(to, "new-question",
      [question |-> q.question, questionId |-> q.id, difficulty |-> q.difficulty])

(***************************************************************************)
(* socketHandlers.js                                                       *)
(***************************************************************************)
Payload(answer) == [t |-> "object", answer |-> answer]

\* The payloads of submit-answer sampled: no payload at all, a payload without an
\* answer field, an empty answer, the canonical answer as text, and another number.
SubmitPayloads ==
  LET q == stateManager.currentQuestion
      a == IF q = NULL THEN 0 ELSE q.answer
  IN  {UNDEFINED, Payload(UNDEFINED), Payload(Str(<<>>)),
       Payload(Str(IntToString(a))), Payload(Str(IntToString(a + 1)))}

\* The difficulty arguments of forceNewQuestion sampled: omitted, and one that is
\* no difficulty level.
DifficultyArgs == {UNDEFINED, Str("expert")}

\* generateNewQuestion(io, difficulty), difficulty a valid level: the part of the
\* step it determines, after the messages `before` of the same step.
generateNewQuestion(difficulty, before) ==
  /\ questionCount < MaxQuestions
  /\ questionCount' = questionCount + 1
  /\ \E newQuestion \in Questions(difficulty, now) :
       /\ stateManager' = setQuestion(stateManager, newQuestion)
       /\ stateMachine' = transition(stateMachine, "ACTIVE")
       /\ emitted' = Append(before, NewQuestionMsg(connectedUsers, newQuestion))
       /\ log' = << NewQuestionMsg(connectedUsers, newQuestion) >>

setupSocketHandlers ==
  /\ ~listening /\ ~crashed
  /\ generateNewQuestion(DEFAULT_DIFFICULTY, <<>>)
  /\ listening' = TRUE
  /\ ev' = [type |-> "setup"]
  /\ UNCHANGED <<questionTimeout, timers, connectedUsers, closed,
                 crashed, now, returned>>

\* io.on('connection'): server.js registers the socket and broadcasts the count,
\* then the quiz handler sends the current question to the new socket.  Socket ids
\* are opaque and never reused; they are numbered in the order they connect.
connection(socketId) ==
  /\ listening /\ ~crashed
  /\ socketId = [sid |-> Cardinality(connectedUsers \cup closed) + 1]
  /\ connectedUsers' = connectedUsers \cup {socketId}
  /\ emitted' = << Msg(connectedUsers', "user-count", [count |-> Cardinality(connectedUsers')]),
                   sendCurrentQuestionToUser(stateManager, socketId) >>
  /\ ev' = [type |-> "connection", socketId |-> socketId]
  /\ UNCHANGED <<stateManager, stateMachine, questionTimeout, timers,
                 closed, listening, crashed, now, questionCount, returned, log>>

\* A disconnect that also drops what the connection submitted in the round.
disconnectForgetsSubmission(socketId) ==
  /\ listening /\ ~crashed
  /\ socketId \in connectedUsers
  /\ connectedUsers' = connectedUsers \ {socketId}
  /\ closed' = closed \cup {socketId}
  /\ stateManager' =
       [stateManager EXCEPT
          !.submissions = [s \in DOMAIN stateManager.submissions \ {socketId} |->
                             stateManager.submissions[s]],
          !.currentWinner = IF @ = socketId THEN NULL ELSE @]
  /\ emitted' = << Msg(connectedUsers', "user-count", [count |-> Cardinality(connectedUsers')]) >>
  /\ ev' = [type |-> "disconnect", socketId |-> socketId]
  /\ UNCHANGED <<stateMachine, questionTimeout, timers,
                 listening, crashed, now, questionCount, returned, log>>

\* socket.on('disconnect') of server.js and of the quiz handler
disconnect(socketId) ==
  /\ listening /\ ~crashed
  /\ socketId \in connectedUsers
  /\ connectedUsers' = connectedUsers \ {socketId}
  /\ closed' = closed \cup {socketId}
  /\ emitted' = << Msg(connectedUsers', "user-count", [count |-> Cardinality(connectedUsers')]) >>
  /\ ev' = [type |-> "disconnect", socketId |-> socketId]
  /\ UNCHANGED <<stateManager, stateMachine, questionTimeout, timers,
                 listening, crashed, now, questionCount, returned, log>>

requestQuestion(socketId) ==
  /\ listening /\ ~crashed
  /\ socketId \in connectedUsers
  /\ emitted' = << sendCurrentQuestionToUser(stateManager, socketId) >>
  /\ ev' = [type |-> "request-question", socketId |-> socketId]
  /\ UNCHANGED <<stateManager, stateMachine, questionTimeout, timers,
                 connectedUsers, closed, listening, crashed, now, questionCount, returned, log>>

\* What handleAnswerSubmission(socket, data, io) does to the StateManager and what
\* it emits: [threw, sm, won, emitted], where won tells that the winner branch ran.
\* The handler is written as a chain of operators, one per stage, each taking
\* the values the previous stages computed.
Outcome(threw, sm, won, msgs) ==
  [threw |-> threw, sm |-> sm, won |-> won, emitted |-> msgs]

\* A winner branch that announces the winner with socket.emit instead of io.emit.
afterAttemptWinToWinnerOnly(isWinner, currentQuestion, socketId, isCorrect, sockets) ==
  IF isWinner.result
    THEN Outcome(FALSE, isWinner.sm, TRUE,
           << Msg({socketId}, "winner-declared",
                  [winnerId |-> socketId,
                   correctAnswer |-> currentQuestion.answer,
                   question |-> currentQuestion.question,
                   questionId |-> currentQuestion.id,
                   submissionTime |-> getSubmission(isWinner.sm, socketId).timestamp,
                   nextQuestionIn |-> WINNER_DISPLAY_DURATION]),
              Msg({socketId}, "you-won",
                  [correctAnswer |-> currentQuestion.answer,
                   question |-> currentQuestion.question]) >>)
    ELSE Outcome(FALSE, isWinner.sm, FALSE,
           << Msg({socketId}, "submission-result",
                  [correct |-> isCorrect, winner |-> FALSE]) >>)

\* A winner branch that sends you-won with io.emit instead of socket.emit.
afterAttemptWinYouWonToAll(isWinner, currentQuestion, socketId, isCorrect, sockets) ==
  IF isWinner.result
    THEN Outcome(FALSE, isWinner.sm, TRUE,
           << Msg(sockets, "winner-declared",
                  [winnerId |-> socketId,
                   correctAnswer |-> currentQuestion.answer,
                   question |-> currentQuestion.question,
                   questionId |-> currentQuestion.id,
                   submissionTime |-> getSubmission(isWinner.sm, socketId).timestamp,
                   nextQuestionIn |-> WINNER_DISPLAY_DURATION]),
              Msg(sockets, "you-won",
                  [correctAnswer |-> currentQuestion.answer,
                   question |-> currentQuestion.question]) >>)
    ELSE Outcome(FALSE, isWinner.sm, FALSE,
           << Msg({socketId}, "submission-result",
                  [correct |-> isCorrect, winner |-> FALSE]) >>)

\* if (isWinner) { ... } else { if (isCorrect) ... else ... }
afterAttemptWin(isWinner, currentQuestion, socketId, isCorrect, sockets) ==
  IF isWinner.result
    THEN Outcome(FALSE, isWinner.sm, TRUE,
           << Msg(sockets, "winner-declared",
                  [winnerId |-> socketId,
                   correctAnswer |-> currentQuestion.answer,
                   question |-> currentQuestion.question,
                   questionId |-> currentQuestion.id,
                   submissionTime |-> getSubmission(isWinner.sm, socketId).timestamp,
                   nextQuestionIn |-> WINNER_DISPLAY_DURATION]),
              Msg({socketId}, "you-won",
                  [correctAnswer |-> currentQuestion.answer,
                   question |-> currentQuestion.question]) >>)
    ELSE Outcome(FALSE, isWinner.sm, FALSE,
           << Msg({socketId}, "submission-result",
                  [correct |-> isCorrect, winner |-> FALSE]) >>)

\* const isWinner = stateManager.attemptWin(socketId, isCorrect)
afterValidate(sm, socketId, isCorrect, sockets) ==
  afterAttemptWin(attemptWin(sm, socketId, isCorrect), sm.currentQuestion,
                  socketId, isCorrect, sockets)

\* if (!recordResult.success) { ... return } ; const isCorrect = validate(...)
afterRecordSubmission(recordResult, socketId, answer, sockets) ==
  IF ~recordResult.result.success
    THEN Outcome(FALSE, recordResult.sm, FALSE,
           << Msg({socketId}, "submission-rejected",
                  [reason |-> recordResult.result.reason]) >>)
    ELSE afterValidate(recordResult.sm, socketId,
                       validate(answer, recordResult.sm.currentQuestion.answer),
                       sockets)

\* A handler without the check of the answer for emptiness.
handleAnswerSubmissionUnchecked(sm, socketId, data, timestamp, sockets) ==
  IF data = UNDEFINED \/ data = NULL
    THEN Outcome(TRUE, sm, FALSE, <<>>)
    ELSE afterRecordSubmission(recordSubmission(sm, socketId, data.answer, timestamp),
                               socketId, data.answer, sockets)

\* handleAnswerSubmission(socket, data, io): destructuring a missing payload
\* throws; an answer that is undefined, null or '' is refused before anything
\* is recorded.
handleAnswerSubmission(sm, socketId, data, timestamp, sockets) ==
  IF data = UNDEFINED \/ data = NULL
    THEN Outcome(TRUE, sm, FALSE, <<>>)
  ELSE IF data.answer = UNDEFINED \/ data.answer = NULL \/ data.answer = Str(<<>>)
    THEN Outcome(FALSE, sm, FALSE,
           << Msg({socketId}, "submission-error", [error |-> "Invalid answer"]) >>)
  ELSE afterRecordSubmission(recordSubmission(sm, socketId, data.answer, timestamp),
                             socketId, data.answer, sockets)

\* socket.on('submit-answer', data)
submitAnswer(socketId, data) ==
  /\ listening /\ ~crashed
  /\ socketId \in connectedUsers
  /\ LET h == handleAnswerSubmission(stateManager, socketId, data, now, connectedUsers)
     IN  /\ crashed' = h.threw
         /\ stateManager' = h.sm
         /\ emitted' = h.emitted
         /\ log' = log \o Announced(h.emitted)
         /\ IF h.won
              THEN LET handoff == NewHandle(timers, {questionTimeout})
                       rotation == NewHandle(timers, {questionTimeout, handoff})
                   IN  /\ stateMachine' = transition(stateMachine, "LOCKED")
                       /\ timers' = setTimeout(
                                      clearTimeout(
                                        setTimeout(timers, handoff, "handoff",
                                                   HANDOFF_DELAY, now),
                                        questionTimeout),
                                      rotation, "rotation", WINNER_DISPLAY_DURATION, now)
                       /\ questionTimeout' = rotation
              ELSE UNCHANGED <<stateMachine, timers, questionTimeout>>
  /\ ev' = [type |-> "submit-answer", socketId |-> socketId, data |-> data]
  /\ UNCHANGED <<connectedUsers, closed, listening, now, questionCount, returned>>

\* setTimeout(() => stateMachine.transition('TRANSITIONING', ...), 100)
handoffCallback(i) ==
  /\ ~crashed
  /\ IsNextTimer(i) /\ timers[i].callback = "handoff"
  /\ timers' = RemoveAt(timers, i)
  /\ stateMachine' = transition(stateMachine, "TRANSITIONING")
  /\ emitted' = <<>>
  /\ ev' = [type |-> "handoff-timer", handle |-> timers[i].handle]
  /\ UNCHANGED <<stateManager, questionTimeout, connectedUsers, closed,
                 listening, crashed, now, questionCount, returned, log>>

\* questionTimeout = setTimeout(() => generateNewQuestion(io), WINNER_DISPLAY_DURATION)
rotationCallback(i) ==
  /\ ~crashed
  /\ IsNextTimer(i) /\ timers[i].callback = "rotation"
  /\ timers' = RemoveAt(timers, i)
  /\ generateNewQuestion(DEFAULT_DIFFICULTY, <<>>)
  /\ ev' = [type |-> "rotation-timer", handle |-> timers[i].handle]
  /\ UNCHANGED <<questionTimeout, connectedUsers, closed, listening,
                 crashed, now, returned>>

\* forceNewQuestion(io, difficulty): an omitted difficulty takes the default; one
\* that is no difficulty level makes generate throw on config.minNumber, after the
\* rotation timer has been cleared.
forceNewQuestion(difficulty) ==
  /\ listening /\ ~crashed
  /\ timers' = clearTimeout(timers, questionTimeout)
  /\ LET level == IF difficulty = UNDEFINED THEN DEFAULT_DIFFICULTY ELSE difficulty.s
     IN  IF level \in DOMAIN difficultyLevels
           THEN generateNewQuestion(level, <<>>)
           ELSE /\ emitted' = <<>>
                /\ UNCHANGED <<stateManager, stateMachine, log, questionCount>>
  /\ ev' = [type |-> "forceNewQuestion", difficulty |-> difficulty]
  /\ UNCHANGED <<questionTimeout, connectedUsers, closed, listening,
                 crashed, now, returned>>

resetQuiz ==
  /\ listening /\ ~crashed
  /\ timers' = clearTimeout(timers, questionTimeout)
  /\ stateManager' = reset(stateManager)
  /\ emitted' = <<>>
  /\ ev' = [type |-> "resetQuiz"]
  /\ UNCHANGED <<stateMachine, questionTimeout, connectedUsers, closed,
                 listening, crashed, now, questionCount, returned, log>>

\* The clock moves on: to the next timer instant, or (early in the run) by one
\* millisecond.  It does not pass the instant of a pending timer (timers run on
\* time).
Advance ==
  /\ listening /\ ~crashed
  /\ \E t \in {now + 1} \cup Deadlines :
       /\ t > now
       /\ \A d \in Deadlines : t <= d
       /\ t \in Deadlines \/ t <= MaxTick
       /\ now' = t
  /\ emitted' = <<>>
  /\ ev' = [type |-> "clock"]
  /\ UNCHANGED <<stateManager, stateMachine, questionTimeout, timers,
                 connectedUsers, closed, listening, crashed, questionCount,
                 returned, log>>

Init ==
  /\ stateManager = NewStateManager
  /\ stateMachine = NewStateMachineLogger
  /\ questionTimeout = NULL
  /\ timers = <<>>
  /\ questionCount = 0
  /\ connectedUsers = {}
  /\ closed = {}
  /\ listening = FALSE
  /\ crashed = FALSE
  /\ now = 0
  /\ ev = [type |-> "init"]
  /\ emitted = <<>>
  /\ returned = UNDEFINED
  /\ log = <<>>

Next ==
  \/ setupSocketHandlers
  \/ \E socketId \in SocketIds : connection(socketId)
  \/ \E socketId \in SocketIds : disconnect(socketId)
  \/ \E socketId \in SocketIds : requestQuestion(socketId)
  \/ \E socketId \in SocketIds : \E data \in SubmitPayloads : submitAnswer(socketId, data)
  \/ \E i \in 1..Len(timers) : handoffCallback(i)
  \/ \E i \in 1..Len(timers) : rotationCallback(i)
  \/ \E difficulty \in DifficultyArgs : forceNewQuestion(difficulty)
  \/ resetQuiz
  \/ Advance

Spec == Init /\ [][Next]_vars

\* The Hub on a runtime that keeps running: the clock moves on and a timer that
\* is due runs its callback.
Fairness ==
  /\ WF_vars(Advance)
  /\ WF_vars(\E i \in 1..Len(timers) : handoffCallback(i))
  /\ WF_vars(\E i \in 1..Len(timers) : rotationCallback(i))

SpecLive == Spec /\ Fairness

(***************************************************************************)
(* A StateManager driven through its public methods in any order, as the   *)
(* unit tests drive an instance of their own.  Every call the Hub makes is *)
(* one of these calls, so a state of the Hub's manager is a state here.    *)
(***************************************************************************)
\* The answers a caller passes to recordSubmission, sampled as for submit-answer.
Answers ==
  LET q == stateManager.currentQuestion
      a == IF q = NULL THEN 0 ELSE q.answer
  IN  {Str(IntToString(a)), Str(IntToString(a + 1))}

callSetQuestion(question) ==
  /\ stateManager' = setQuestion(stateManager, question)
  /\ returned' = UNDEFINED
  /\ emitted' = <<>>
  /\ ev' = [type |-> "setQuestion", question |-> question, before |-> stateManager]
  /\ UNCHANGED <<stateMachine, questionTimeout, timers, connectedUsers, closed,
                 listening, crashed, now, questionCount, log>>

callRecordSubmission(socketId, answer, timestamp) ==
  /\ LET r == recordSubmission(stateManager, socketId, answer, timestamp)
     IN  /\ stateManager' = r.sm
         /\ returned' = r.result
  /\ emitted' = <<>>
  /\ ev' = [type |-> "recordSubmission", socketId |-> socketId,
            answer |-> answer, timestamp |-> timestamp]
  /\ UNCHANGED <<stateMachine, questionTimeout, timers, connectedUsers, closed,
                 listening, crashed, now, questionCount, log>>

callAttemptWin(socketId, isCorrect) ==
  /\ LET r == attemptWin(stateManager, socketId, isCorrect)
     IN  /\ stateManager' = r.sm
         /\ returned' = Bool(r.result)
  /\ emitted' = <<>>
  /\ ev' = [type |-> "attemptWin", socketId |-> socketId, isCorrect |-> isCorrect]
  /\ UNCHANGED <<stateMachine, questionTimeout, timers, connectedUsers, closed,
                 listening, crashed, now, questionCount, log>>

callReset ==
  /\ stateManager' = reset(stateManager)
  /\ returned' = UNDEFINED
  /\ emitted' = <<>>
  /\ ev' = [type |-> "reset"]
  /\ UNCHANGED <<stateMachine, questionTimeout, timers, connectedUsers, closed,
                 listening, crashed, now, questionCount, log>>

\* A call of one of the accessors: the StateManager after it and what it returned.
Accessors ==
  {"getSubmissionsInOrder", "getGracePeriodSubmissions", "getStats", "getState",
   "getGracePeriod"}

Accessor(name, sm) ==
  CASE name = "getSubmissionsInOrder" -> getSubmissionsInOrder(sm)
    [] name = "getGracePeriodSubmissions" -> getGracePeriodSubmissions(sm)
    [] name = "getStats" -> getStats(sm)
    [] name = "getState" -> getState(sm)
    [] name = "getGracePeriod" -> getGracePeriod(sm)

callAccessor(name) ==
  /\ stateManager' = Accessor(name, stateManager).sm
  /\ returned' = Accessor(name, stateManager).result
  /\ emitted' = <<>>
  /\ ev' = [type |-> name, before |-> stateManager]
  /\ UNCHANGED <<stateMachine, questionTimeout, timers, connectedUsers, closed,
                 listening, crashed, now, questionCount, log>>

\* The durations setGracePeriod is called with.
GracePeriods == {-100, -1, 0, DEFAULT_GRACE_PERIOD_MS}

callSetGracePeriod(milliseconds) ==
  /\ stateManager' = setGracePeriod(stateManager, milliseconds).sm
  /\ returned' = setGracePeriod(stateManager, milliseconds).result
  /\ emitted' = <<>>
  /\ ev' = [type |-> "setGracePeriod", milliseconds |-> milliseconds]
  /\ UNCHANGED <<stateMachine, questionTimeout, timers, connectedUsers, closed,
                 listening, crashed, now, questionCount, log>>

\* The instants a caller passes as timestamps, and at which questions are made.
Timestamps == 0 .. MaxTick

NextSM ==
  \/ \E t \in Timestamps : \E question \in Questions(DEFAULT_DIFFICULTY, t) :
       callSetQuestion(question)
  \/ \E socketId \in SocketIds : \E answer \in Answers : \E timestamp \in Timestamps :
       callRecordSubmission(socketId, answer, timestamp)
  \/ \E socketId \in SocketIds : \E isCorrect \in BOOLEAN :
       callAttemptWin(socketId, isCorrect)
  \/ callReset
  \/ \E name \in Accessors : callAccessor(name)
  \/ \E milliseconds \in GracePeriods : callSetGracePeriod(milliseconds)

SpecSM == Init /\ [][NextSM]_vars

(***************************************************************************)
(* A QuestionGenerator called directly, as its unit tests call it: generate *)
(* with every difficulty and validate with raw values of every kind.       *)
(***************************************************************************)
Max(a, b) == IF a > b THEN a ELSE b

\* The values of getRandomNumber(min, max) sampled here: both ends of the range.
OperandSamples(min, max) ==
  (min .. Min(max, min + MaxSpread)) \cup (Max(min, max - MaxSpread) .. max)

\* Two values of Math.random().toString(36).substr(2, 9).
SuffixSamples == {0, 1}

\* A raw value together with the number it writes (NaN when it writes none).
Raw(raw, means) == [raw |-> raw, means |-> means]

\* The canonical answers validate is called with.
CanonicalSamples == {0, 1, 12}

\* Raw values around the canonical answer a: a itself, a +- 0.00005, a + 0.0002
\* and a + 1 as numbers and as text, with a sign, with white space around, and
\* with text that is no number.
RawSamplesNear(a) ==
  LET d == NatToDigits(a)
  IN  { Raw(Num(a, 0), Num(a, 0)),
        Raw(Num(a * 100000 + 5, 5), Num(a * 100000 + 5, 5)),
        Raw(Num(a * 100000 - 5, 5), Num(a * 100000 - 5, 5)),
        Raw(Num(a * 10000 + 2, 4), Num(a * 10000 + 2, 4)),
        Raw(Num(a + 1, 0), Num(a + 1, 0)),
        Raw(Str(d), Num(a, 0)),
        Raw(Str(<<" ">> \o d \o <<" ", "\n">>), Num(a, 0)),
        Raw(Str(d \o <<".", "0">>), Num(a, 0)),
        Raw(Str(d \o <<".">>), Num(a, 0)),
        Raw(Str(d \o <<".", "0", "0", "0", "0", "5">>), Num(a * 100000 + 5, 5)),
        Raw(Str(d \o <<".", "0", "0", "0", "2">>), Num(a * 10000 + 2, 4)),
        Raw(Str(<<"+">> \o d), Num(a, 0)),
        Raw(Str(<<"-">> \o d), Num(-a, 0)),
        Raw(Str(NatToDigits(a + 1)), Num(a + 1, 0)),
        Raw(Str(d \o <<"x">>), NaN),
        Raw(Str(d \o <<" ">> \o d), NaN) }

\* Raw values that write no number at all.
RawSamplesNoNumber ==
  { Raw(UNDEFINED, NaN), Raw(NULL, NaN), Raw(Str(<<>>), NaN),
    Raw(Str(<<" ">>), NaN), Raw(Str(<<" ", "\t", "\n">>), NaN),
    Raw(Str(<<"a", "b", "c">>), NaN), Raw(Str(<<".">>), NaN),
    Raw(Str(<<"-">>), NaN), Raw(Str(<<"1", ".", "2", ".", "3">>), NaN),
    Raw(Bool(TRUE), NaN), Raw(Bool(FALSE), NaN) }

IsQuestion(v) == "id" \in DOMAIN v

\* questionGenerator.generate(difficulty): the draws that the code overwrites
\* (the first operands of a multiplication) or never makes (the redrawn operands
\* of another operator) are not varied.
callGenerate(difficulty) ==
  /\ LET config == difficultyLevels[difficulty]
         first == OperandSamples(config.minNumber, config.maxNumber)
         redraw == OperandSamples(config.minNumber,
                                  Min(config.maxNumber, MULTIPLICATION_CAP))
     IN  \E d1 \in first, d2 \in first, m1 \in redraw, m2 \in redraw,
            i \in DOMAIN config.operators, sfx \in SuffixSamples :
           /\ config.operators[i] = "*" => d1 = config.minNumber /\ d2 = config.minNumber
           /\ config.operators[i] /= "*" => m1 = config.minNumber /\ m2 = config.minNumber
           /\ returned' = generate(difficulty, d1, d2, config.operators[i],
                                   m1, m2, sfx, now)
           /\ ev' = [type |-> "generate", difficulty |-> difficulty,
                     d1 |-> d1, d2 |-> d2,
                     after |-> IF IsQuestion(returned) THEN returned.id ELSE NULL]
  /\ emitted' = <<>>
  /\ UNCHANGED <<stateManager, stateMachine, questionTimeout, timers, connectedUsers,
                 closed, listening, crashed, now, questionCount, log>>

\* questionGenerator.validate(userAnswer, correctAnswer)
callValidate(userAnswer, correctAnswer) ==
  /\ returned' = Bool(validate(userAnswer.raw, correctAnswer))
  /\ ev' = [type |-> "validate", userAnswer |-> userAnswer.raw,
            means |-> userAnswer.means, correctAnswer |-> correctAnswer]
  /\ emitted' = <<>>
  /\ UNCHANGED <<stateManager, stateMachine, questionTimeout, timers, connectedUsers,
                 closed, listening, crashed, now, questionCount, log>>

\* A millisecond passes between two calls.
elapse ==
  /\ now < MaxTick
  /\ now' = now + 1
  /\ emitted' = <<>>
  /\ ev' = [type |-> "clock"]
  /\ UNCHANGED <<stateManager, stateMachine, questionTimeout, timers, connectedUsers,
                 closed, listening, crashed, questionCount, returned, log>>

NextQG ==
  \/ \E difficulty \in Difficulties : callGenerate(difficulty)
  \/ \E correctAnswer \in CanonicalSamples :
       \E userAnswer \in RawSamplesNear(correctAnswer) \cup RawSamplesNoNumber :
         callValidate(userAnswer, correctAnswer)
  \/ elapse

SpecQG == Init /\ [][NextQG]_vars

(***************************************************************************)
(* Properties                                                              *)
(***************************************************************************)
Count(msgs, event) == Cardinality({ i \in DOMAIN msgs : msgs[i].event = event })

IsSubmit(e) == e.type = "submit-answer"

\* a submit-answer whose payload carries a non-empty answer
SubmittedAnswer(e) ==
  /\ IsSubmit(e)
  /\ e.data /= UNDEFINED
  /\ e.data.answer \notin {UNDEFINED, NULL, Str(<<>>)}

Rejection(socketId, reason) ==
  << Msg({socketId}, "submission-rejected", [reason |-> reason]) >>

Rejected(reason) == [success |-> FALSE, reason |-> reason]

CorrectAt(sm, i) ==
  validate(sm.submissions[sm.submissionOrder[i].socketId].answer,
           sm.currentQuestion.answer)

\* C1: in every round, whatever submit-answer events arrive and in whatever
\* order, at most one winner-declared is broadcast and at most one you-won is
\* sent (log holds the announcements of the current round).
SingleWinner ==
  /\ Count(log, "winner-declared") <= 1
  /\ Count(log, "you-won") <= 1

\* A winner has been declared and another connection has just submitted an
\* answer that is correct too.
SingleWinnerWitness ==
  /\ Count(log, "winner-declared") = 1
  /\ SubmittedAnswer(ev)
  /\ stateManager.currentQuestion /= NULL
  /\ stateManager.currentWinner /= NULL
  /\ ev.socketId /= stateManager.currentWinner
  /\ validate(ev.data.answer, stateManager.currentQuestion.answer)

\* C2: the winner of a round is the connection of the first correct Submission
\* in the order the Hub handled them: no recorded Submission before the winner's
\* is correct, while there is no winner no recorded Submission is correct, and
\* the winner's recorded answer validates against the answer carried by the
\* winner-declared message, which names the winner and the current question.
FirstCorrectElected ==
  LET sm == stateManager
      order == sm.submissionOrder
      winner == sm.currentWinner
  IN  /\ (winner = NULL /\ sm.currentQuestion /= NULL)
           => \A i \in DOMAIN order : ~CorrectAt(sm, i)
      /\ winner /= NULL =>
           /\ sm.currentQuestion /= NULL
           /\ \E i \in DOMAIN order :
                /\ order[i].socketId = winner
                /\ CorrectAt(sm, i)
                /\ \A j \in 1..(i - 1) : ~CorrectAt(sm, j)
           /\ \E k \in DOMAIN log :
                /\ log[k].event = "winner-declared"
                /\ log[k].payload.winnerId = winner
                /\ log[k].payload.questionId = sm.currentQuestion.id
                /\ validate(sm.submissions[winner].answer, log[k].payload.correctAnswer)
      /\ \A k \in DOMAIN log :
           (log[k].event = "winner-declared" /\ sm.currentQuestion /= NULL)
             => log[k].payload.winnerId = winner

\* The winner is the second connection to submit: the first one's answer was wrong.
FirstCorrectElectedWitness ==
  /\ stateManager.currentWinner /= NULL
  /\ Len(stateManager.submissionOrder) = 2
  /\ stateManager.submissionOrder[2].socketId = stateManager.currentWinner
  /\ Count(log, "winner-declared") = 1

\* C3: when a connection with no Submission in the round submits the correct
\* answer after another connection has won the round, it is sent
\* submission-result with correct: true and winner: false, and the round keeps
\* exactly one winner-declared and one you-won.
LostRaceReply ==
  [][ (/\ SubmittedAnswer(ev')
       /\ stateManager.isLocked
       /\ stateManager.currentQuestion /= NULL
       /\ ev'.socketId \notin DOMAIN stateManager.submissions
       /\ validate(ev'.data.answer, stateManager.currentQuestion.answer))
      => /\ emitted' = << Msg({ev'.socketId}, "submission-result",
                              [correct |-> TRUE, winner |-> FALSE]) >>
         /\ Count(log', "winner-declared") = 1
         /\ Count(log', "you-won") = 1 ]_vars

\* C4: while the round is locked, recordSubmission rejects every connection and
\* every answer with question-locked and records nothing, a submit-answer with an
\* answer is replied submission-rejected(question-locked) and changes nothing,
\* and the manager changes only by reset or setQuestion.
LockMonotonic ==
  [][ stateManager.isLocked =>
        /\ \A socketId \in SocketIds : \A answer \in Answers :
             recordSubmission(stateManager, socketId, answer, now)
               = [sm |-> stateManager, result |-> Rejected("question-locked")]
        /\ SubmittedAnswer(ev') =>
             /\ emitted' = Rejection(ev'.socketId, "question-locked")
             /\ stateManager' = stateManager
        /\ stateManager' /= stateManager =>
             \/ stateManager' = reset(stateManager)
             \/ stateManager' = setQuestion(stateManager, stateManager'.currentQuestion)
    ]_vars

\* After winner-declared, a connection other than the winner has submitted an
\* answer and been told question-locked.
LockMonotonicWitness ==
  /\ stateManager.isLocked
  /\ Count(log, "winner-declared") = 1
  /\ SubmittedAnswer(ev)
  /\ ev.socketId /= stateManager.currentWinner
  /\ emitted = Rejection(ev.socketId, "question-locked")

\* C5: the mapping and the order list hold exactly one entry per connection
\* that submitted in the round, and a submit-answer never changes or removes a
\* Submission already stored.
NoDuplicateSubmissions ==
  /\ [](LET sm == stateManager
            order == sm.submissionOrder
        IN  /\ Len(order) = Cardinality(DOMAIN sm.submissions)
            /\ { order[i].socketId : i \in DOMAIN order } = DOMAIN sm.submissions
            /\ \A i \in DOMAIN order :
                 sm.submissions[order[i].socketId].timestamp = order[i].timestamp)
  /\ [][ IsSubmit(ev') =>
           \A socketId \in DOMAIN stateManager.submissions :
             /\ socketId \in DOMAIN stateManager'.submissions
             /\ stateManager'.submissions[socketId] = stateManager.submissions[socketId]
       ]_vars

\* A connection has submitted a second, different answer in the round and the
\* first one is still the one stored.
NoDuplicateSubmissionsWitness ==
  /\ SubmittedAnswer(ev)
  /\ emitted = Rejection(ev.socketId, "already-submitted")
  /\ ev.socketId \in DOMAIN stateManager.submissions
  /\ stateManager.submissions[ev.socketId].answer /= ev.data.answer

\* C6 as stated: a submit-answer with an answer, from a connection that has a
\* Submission in the round, is replied submission-rejected(already-submitted)
\* whatever happened since that Submission.
SecondSubmitAlreadySubmitted ==
  [][ (SubmittedAnswer(ev') /\ ev'.socketId \in DOMAIN stateManager.submissions)
      => emitted' = Rejection(ev'.socketId, "already-submitted") ]_vars

\* C6 amended: a submit-answer with an answer, from a connection that has a
\* Submission in the round, is replied submission-rejected and records nothing;
\* the reason is already-submitted while the round is unlocked and
\* question-locked once it is locked.
SecondSubmitRejected ==
  [][ (SubmittedAnswer(ev') /\ ev'.socketId \in DOMAIN stateManager.submissions)
      => /\ emitted' = Rejection(ev'.socketId,
                                 IF stateManager.isLocked THEN "question-locked"
                                                          ELSE "already-submitted")
         /\ stateManager' = stateManager ]_vars

\* A connection submitted, another connection submitted after it, and the first
\* has now submitted again and been told already-submitted.
SecondSubmitRejectedWitness ==
  /\ SubmittedAnswer(ev)
  /\ emitted = Rejection(ev.socketId, "already-submitted")
  /\ Len(stateManager.submissionOrder) = 2
  /\ stateManager.submissionOrder[1].socketId = ev.socketId

\* C7: a call of recordSubmission returns question-locked if the round is
\* locked, else already-submitted if the connection has a Submission, else
\* no-question if there is no question, and in those cases changes nothing;
\* otherwise it returns success, inserts exactly the one Submission, appends
\* exactly the one order entry and changes nothing else.
RecordSubmissionOrder ==
  [][ ev'.type = "recordSubmission" =>
        LET sm == stateManager
            after == stateManager'
            socketId == ev'.socketId
        IN  IF sm.isLocked
              THEN returned' = Rejected("question-locked") /\ after = sm
            ELSE IF socketId \in DOMAIN sm.submissions
              THEN returned' = Rejected("already-submitted") /\ after = sm
            ELSE IF sm.currentQuestion = NULL
              THEN returned' = Rejected("no-question") /\ after = sm
            ELSE /\ returned' = [success |-> TRUE, timestamp |-> ev'.timestamp]
                 /\ DOMAIN after.submissions = DOMAIN sm.submissions \cup {socketId}
                 /\ after.submissions[socketId]
                      = [answer |-> ev'.answer, timestamp |-> ev'.timestamp]
                 /\ \A other \in DOMAIN sm.submissions :
                      after.submissions[other] = sm.submissions[other]
                 /\ after.submissionOrder
                      = Append(sm.submissionOrder,
                               [socketId |-> socketId, timestamp |-> ev'.timestamp])
                 /\ after.currentQuestion = sm.currentQuestion
                 /\ after.currentWinner = sm.currentWinner
                 /\ after.isLocked = sm.isLocked
    ]_vars

\* recordSubmission was called for a connection that has a Submission while the
\* round was locked (two reasons to reject at once), and returned question-locked.
RecordSubmissionOrderWitness ==
  /\ ev.type = "recordSubmission"
  /\ ev.socketId \in DOMAIN stateManager.submissions
  /\ stateManager.isLocked
  /\ returned = Rejected("question-locked")

\* C8 (I1): after any sequence of setQuestion, recordSubmission, attemptWin and
\* reset, the round is locked exactly when a winner is set.
LockedIffWinner ==
  stateManager.isLocked <=> stateManager.currentWinner /= NULL

\* attemptWin has just returned true: locked, with a winner.
LockedIffWinnerWitness ==
  /\ ev.type = "attemptWin"
  /\ returned = Bool(TRUE)
  /\ stateManager.isLocked
  /\ stateManager.currentWinner = ev.socketId

NoQuestionNoRound ==
  stateManager.currentQuestion = NULL =>
    /\ DOMAIN stateManager.submissions = {}
    /\ ~stateManager.isLocked
    /\ stateManager.currentWinner = NULL

\* C11: after setQuestion(q), from any state of the manager, the current
\* question is q, the round is unlocked with no winner, the mapping and the order
\* list are empty, and recordSubmission accepts every connection again.
RoundResetComplete ==
  [][ ev'.type = "setQuestion" =>
        /\ stateManager'.currentQuestion = ev'.question
        /\ ~stateManager'.isLocked
        /\ stateManager'.currentWinner = NULL
        /\ DOMAIN stateManager'.submissions = {}
        /\ stateManager'.submissionOrder = <<>>
        /\ stateManager'.GRACE_PERIOD_MS = stateManager.GRACE_PERIOD_MS
        /\ \A socketId \in SocketIds : \A answer \in Answers : \A timestamp \in Timestamps :
             recordSubmission(stateManager', socketId, answer, timestamp).result.success
    ]_vars

\* setQuestion has just been called on a manager that was locked, with a winner
\* and two recorded Submissions.
RoundResetCompleteWitness ==
  /\ ev.type = "setQuestion"
  /\ ev.before.isLocked
  /\ ev.before.currentWinner /= NULL
  /\ Cardinality(DOMAIN ev.before.submissions) = 2
  /\ DOMAIN stateManager.submissions = {}

\* C12: attemptWin(connId, isCorrect) returns true exactly when the round was
\* unlocked and isCorrect is true, and then sets the lock and the winner connId
\* and nothing else; in every other case it returns false and changes nothing.
AttemptWinContract ==
  [][ ev'.type = "attemptWin" =>
        IF ~stateManager.isLocked /\ ev'.isCorrect
          THEN /\ returned' = Bool(TRUE)
               /\ stateManager' = [stateManager EXCEPT !.isLocked = TRUE,
                                                       !.currentWinner = ev'.socketId]
          ELSE /\ returned' = Bool(FALSE)
               /\ stateManager' = stateManager
    ]_vars

\* attemptWin was called with a correct answer for a connection other than the
\* winner after the round was locked, and returned false.
AttemptWinContractWitness ==
  /\ ev.type = "attemptWin"
  /\ ev.isCorrect
  /\ returned = Bool(FALSE)
  /\ stateManager.isLocked
  /\ stateManager.currentWinner /= NULL
  /\ stateManager.currentWinner /= ev.socketId

\* C13: a call of transition(target) for which (current state, target) is not
\* in the table of valid transitions leaves the current state as it was: the
\* state changes only by valid transitions.
InvalidTransitionRefused ==
  [][ Len(stateMachine'.stateHistory) > Len(stateMachine.stateHistory) =>
        LET last == stateMachine'.stateHistory[Len(stateMachine'.stateHistory)]
        IN  last.to \notin validTransitions[last.from]
              => stateMachine'.currentState = stateMachine.currentState
    ]_vars

\* C14: every transition recorded in the history of the lifecycle machine is one
\* of the valid transitions.
TransitionLegality ==
  \A i \in DOMAIN stateMachine.stateHistory :
    stateMachine.stateHistory[i].to
      \in validTransitions[stateMachine.stateHistory[i].from]

\* C15: a round starts with its new-question, which is the last message of the
\* step that installs the question it names; every winner-declared is emitted
\* while the question it names is the current one, in a step that starts no
\* round.  So on every connection new-question(qN) comes before
\* new-question(qN+1), and the winner-declared of a round between its
\* new-question and the next.
BroadcastOrdering ==
  /\ [](log /= <<>> =>
          /\ log[1].event = "new-question"
          /\ \A k \in 2..Len(log) :
               /\ log[k].event /= "new-question"
               /\ log[k].event = "winner-declared"
                    => log[k].payload.questionId = log[1].payload.questionId)
  /\ [][ \A i \in DOMAIN emitted' :
           /\ emitted'[i].event = "new-question" =>
                /\ i = Len(emitted')
                /\ questionCount' = questionCount + 1
                /\ stateManager'.currentQuestion /= NULL
                /\ stateManager'.currentQuestion.id = emitted'[i].payload.questionId
                /\ log' = << emitted'[i] >>
           /\ emitted'[i].event = "winner-declared" =>
                /\ questionCount' = questionCount
                /\ stateManager.currentQuestion /= NULL
                /\ stateManager'.currentQuestion = stateManager.currentQuestion
                /\ stateManager.currentQuestion.id = emitted'[i].payload.questionId
                /\ Count(emitted', "new-question") = 0
       ]_vars

\* The rotation timer has started the next round: both participants, who were
\* sent the winner-declared of the round before, are now sent its new-question.
BroadcastOrderingWitness ==
  /\ ev.type = "rotation-timer"
  /\ Len(emitted) = 1
  /\ emitted[1].event = "new-question"
  /\ Cardinality(emitted[1].to) = 2
  /\ questionCount = 2

\* C16: every new-question and every winner-declared is one message sent to all
\* the connections connected at that moment, so two participants connected over
\* the same rounds are sent the same questions and the same winner announcements
\* in the same order.
FanOutAgreement ==
  [][ \A i \in DOMAIN emitted' :
        emitted'[i].event \in {"new-question", "winner-declared"} =>
          /\ emitted'[i].to = connectedUsers
          /\ connectedUsers' = connectedUsers
    ]_vars

\* A winner has just been declared to two connected participants.
FanOutAgreementWitness ==
  /\ Count(emitted, "winner-declared") = 1
  /\ emitted[1].event = "winner-declared"
  /\ Cardinality(emitted[1].to) = 2
  /\ emitted[1].to = connectedUsers

\* A question generated after the n-th has just been broadcast: the round is
\* unlocked and the lifecycle machine is ACTIVE.
NewRoundAfter(n) ==
  /\ questionCount > n
  /\ Count(emitted, "new-question") = 1
  /\ ~stateManager.isLocked
  /\ stateManager.currentQuestion /= NULL
  /\ stateMachine.currentState = "ACTIVE"

WinnerDeclaredIn(n) ==
  /\ questionCount = n
  /\ stateManager.isLocked
  /\ stateManager.currentWinner /= NULL
  /\ stateManager.currentQuestion /= NULL

\* The step that declares a winner arms the rotation timer
\* WINNER_DISPLAY_DURATION later, and the rotation callback installs a question
\* with another id than the one it replaces.
RotationScheduled ==
  [][ /\ Count(emitted', "winner-declared") = 1 =>
           \E i \in DOMAIN timers' :
             /\ timers'[i].callback = "rotation"
             /\ timers'[i].handle = questionTimeout'
             /\ timers'[i].at = now + WINNER_DISPLAY_DURATION
      /\ ev'.type = "rotation-timer" =>
           /\ stateManager.currentQuestion /= NULL
           /\ stateManager.isLocked
           /\ stateManager'.currentQuestion.id /= stateManager.currentQuestion.id
           /\ questionCount' = questionCount + 1
           /\ Count(emitted', "new-question") = 1
           /\ ~stateManager'.isLocked
           /\ stateMachine'.currentState = "ACTIVE"
    ]_vars

RotationPending ==
  \E i \in DOMAIN timers :
    timers[i].callback = "rotation" /\ timers[i].handle = questionTimeout

CorrectSubmit(e, sm) ==
  /\ SubmittedAnswer(e)
  /\ sm.currentQuestion /= NULL
  /\ validate(e.data.answer, sm.currentQuestion.answer)

RotationTimers == { i \in DOMAIN timers : timers[i].callback = "rotation" }

\* C18: the question of a round is replaced only by the rotation timer of a
\* round that has a winner, or by forceNewQuestion / resetQuiz; a rotation timer
\* is pending only while a winner is on display; and in a round without a
\* winner every step other than a correct submit-answer, forceNewQuestion and
\* resetQuiz (connect, disconnect, request-question, empty, wrong or repeated
\* submit-answer, the handoff callback of an earlier round, the clock) keeps the
\* question and leaves the round unlocked.
NoAutoAdvance ==
  /\ [](RotationTimers /= {} =>
          stateManager.currentWinner /= NULL /\ stateManager.isLocked)
  /\ [][ /\ ( /\ stateManager.currentQuestion /= NULL
              /\ \/ stateManager'.currentQuestion /= stateManager.currentQuestion
                 \/ questionCount' /= questionCount ) =>
              /\ ev'.type \in {"rotation-timer", "forceNewQuestion", "resetQuiz"}
              /\ ev'.type = "rotation-timer" =>
                   stateManager.currentWinner /= NULL /\ stateManager.isLocked
         /\ ( /\ stateManager.currentQuestion /= NULL
              /\ stateManager.currentWinner = NULL
              /\ ev'.type \notin {"forceNewQuestion", "resetQuiz"}
              /\ ~CorrectSubmit(ev', stateManager) ) =>
              /\ stateManager'.currentQuestion = stateManager.currentQuestion
              /\ questionCount' = questionCount
              /\ ~stateManager'.isLocked
              /\ stateManager'.currentWinner = NULL
     ]_vars

\* A round that replaced one with a winner has taken a wrong answer, and the
\* handoff callback left over from the earlier round has just run: the round is
\* still on its question, unlocked and without a winner.
NoAutoAdvanceWitness ==
  /\ ev.type = "handoff-timer"
  /\ questionCount = MaxQuestions
  /\ stateManager.currentQuestion /= NULL
  /\ stateManager.currentWinner = NULL
  /\ ~stateManager.isLocked
  /\ stateManager.submissionOrder /= <<>>
  /\ now >= HANDOFF_DELAY

\* C19: at every moment at most one rotation timer is pending, and it is the one
\* questionTimeout holds; the step that declares a winner leaves exactly the
\* timer it arms, forceNewQuestion and resetQuiz leave none; so the rotation
\* callback runs only in the round whose winner armed it, WINNER_DISPLAY_DURATION
\* after that winner's submission, never in a round that replaced it.
RotationTimerCancellation ==
  /\ [](/\ Cardinality(RotationTimers) <= 1
        /\ \A i \in RotationTimers : timers[i].handle = questionTimeout)
  /\ [][ /\ Count(emitted', "winner-declared") = 1 =>
              /\ Cardinality(RotationTimers') = 1
              /\ \A i \in RotationTimers' :
                   /\ timers'[i].handle = questionTimeout'
                   /\ timers'[i].at = now + WINNER_DISPLAY_DURATION
                   /\ \A j \in DOMAIN timers : timers[j].handle /= timers'[i].handle
         /\ ev'.type \in {"forceNewQuestion", "resetQuiz"} => RotationTimers' = {}
         /\ ev'.type = "rotation-timer" =>
              /\ stateManager.currentQuestion /= NULL
              /\ stateManager.currentWinner /= NULL
              /\ now = getSubmission(stateManager, stateManager.currentWinner).timestamp
                         + WINNER_DISPLAY_DURATION
              /\ RotationTimers' = {}
     ]_vars

\* forceNewQuestion has just replaced a round whose winner was on display: the
\* rotation timer of that round is gone while its handoff timer is still pending.
RotationTimerCancellationWitness ==
  /\ ev.type = "forceNewQuestion"
  /\ questionCount = MaxQuestions
  /\ questionTimeout /= NULL
  /\ RotationTimers = {}
  /\ timers /= <<>>
  /\ ~stateManager.isLocked

\* a submit-answer whose payload record has no answer: the field is missing,
\* null or the empty string
EmptyAnswer(e) ==
  /\ IsSubmit(e)
  /\ e.data /= UNDEFINED
  /\ e.data.answer \in {UNDEFINED, NULL, Str(<<>>)}

ParticipantEvents == {"connection", "disconnect", "request-question", "submit-answer"}

\* C21: no message of a participant is fatal: in every reachable state of the
\* Hub, with or without a question, the handler of a connect, disconnect,
\* request-question or submit-answer (whatever its payload, a missing payload
\* or a missing answer included) completes without raising an error, so the Hub
\* keeps serving.
NothingFatal ==
  [][ ev'.type \in ParticipantEvents => ~crashed' ]_vars

QuestionReplies(msgs) ==
  { i \in DOMAIN msgs : msgs[i].event \in {"current-question", "waiting-for-question"} }

\* C22: a connect and a request-question leave the StateManager, the lifecycle
\* machine and the timers as they were and generate no question; the connection
\* alone is sent one reply: current-question with the id and text of the
\* question in flight when there is one (also while the round is locked),
\* waiting-for-question otherwise.
LateJoiner ==
  [][ ev'.type \in {"connection", "request-question"} =>
        /\ stateManager' = stateManager
        /\ stateMachine' = stateMachine
        /\ timers' = timers
        /\ questionTimeout' = questionTimeout
        /\ questionCount' = questionCount
        /\ Count(emitted', "new-question") = 0
        /\ Cardinality(QuestionReplies(emitted')) = 1
        /\ \A i \in QuestionReplies(emitted') :
             /\ emitted'[i].to = {ev'.socketId}
             /\ IF stateManager.currentQuestion /= NULL
                  THEN /\ emitted'[i].event = "current-question"
                       /\ emitted'[i].payload.questionId = stateManager.currentQuestion.id
                       /\ emitted'[i].payload.question = stateManager.currentQuestion.question
                  ELSE emitted'[i].event = "waiting-for-question"
    ]_vars

\* A participant has just connected while a winner is on display and has been
\* sent the question of the locked round.
LateJoinerWitness ==
  /\ ev.type = "connection"
  /\ stateManager.isLocked
  /\ stateManager.currentWinner /= ev.socketId
  /\ Count(emitted, "current-question") = 1
  /\ \A i \in QuestionReplies(emitted) :
       emitted[i].payload.questionId = stateManager.currentQuestion.id

WinnerGone(n) ==
  /\ WinnerDeclaredIn(n)
  /\ stateManager.currentWinner \notin connectedUsers

WrongOnRecord(sm, socketId) ==
  /\ sm.currentQuestion /= NULL
  /\ ~sm.isLocked
  /\ socketId \in DOMAIN sm.submissions
  /\ ~validate(sm.submissions[socketId].answer, sm.currentQuestion.answer)

RoundReplacing == {"rotation-timer", "forceNewQuestion", "resetQuiz"}

\* C24: a wrong answer accepted in an open round is answered
\* submission-result(correct: false, winner: false), is recorded and leaves the
\* round unlocked; the Submission stays on record until the round is replaced;
\* and while the round is unlocked a further submit-answer of that connection,
\* the correct answer included, is answered submission-rejected
\* (already-submitted) and changes nothing, while the correct answer of a
\* connection that has not submitted wins the round.
WrongAnswerFinal ==
  [][ /\ ( /\ SubmittedAnswer(ev')
           /\ stateManager.currentQuestion /= NULL
           /\ ~stateManager.isLocked
           /\ ev'.socketId \notin DOMAIN stateManager.submissions
           /\ ~CorrectSubmit(ev', stateManager) ) =>
           /\ emitted' = << Msg({ev'.socketId}, "submission-result",
                                [correct |-> FALSE, winner |-> FALSE]) >>
           /\ WrongOnRecord(stateManager', ev'.socketId)
           /\ stateManager'.submissions[ev'.socketId].answer = ev'.data.answer
      /\ \A s \in SocketIds :
           WrongOnRecord(stateManager, s) =>
             /\ ev'.type \notin RoundReplacing =>
                  /\ s \in DOMAIN stateManager'.submissions
                  /\ stateManager'.submissions[s] = stateManager.submissions[s]
             /\ (SubmittedAnswer(ev') /\ ev'.socketId = s) =>
                  /\ emitted' = Rejection(s, "already-submitted")
                  /\ stateManager' = stateManager
             /\ ( /\ CorrectSubmit(ev', stateManager)
                  /\ ev'.socketId /= s
                  /\ ev'.socketId \notin DOMAIN stateManager.submissions ) =>
                  /\ stateManager'.currentWinner = ev'.socketId
                  /\ stateManager'.isLocked
                  /\ Count(emitted', "winner-declared") = 1
    ]_vars

\* The connection with a wrong answer on record has just sent the correct
\* answer and been refused.
WrongAnswerFinalWitness ==
  /\ CorrectSubmit(ev, stateManager)
  /\ WrongOnRecord(stateManager, ev.socketId)
  /\ emitted = Rejection(ev.socketId, "already-submitted")

\* The lifecycle machine has recorded an entry into LOCKED and no entry into
\* ACTIVE after it.
LockedEntryRecorded(m) ==
  \E i \in DOMAIN m.stateHistory :
    /\ m.stateHistory[i].to = "LOCKED"
    /\ \A j \in (i + 1)..Len(m.stateHistory) : m.stateHistory[j].to /= "ACTIVE"

\* C25 (O3): whenever a submit-answer is answered submission-rejected
\* (question-locked), the lifecycle machine has already recorded the entry into
\* LOCKED of the current round: it is in LOCKED or TRANSITIONING at that moment,
\* and the rejection does not move it.
LockedRejectionAfterLockedEntry ==
  [][ ( /\ IsSubmit(ev')
        /\ emitted' = Rejection(ev'.socketId, "question-locked") ) =>
        /\ stateMachine.currentState \in {"LOCKED", "TRANSITIONING"}
        /\ LockedEntryRecorded(stateMachine)
        /\ stateMachine' = stateMachine
    ]_vars

\* A submit-answer has just been refused question-locked after the handoff
\* timer moved the machine on to TRANSITIONING.
LockedRejectionAfterLockedEntryWitness ==
  /\ IsSubmit(ev)
  /\ emitted = Rejection(ev.socketId, "question-locked")
  /\ stateMachine.currentState = "TRANSITIONING"
  /\ stateManager.currentWinner /= ev.socketId

\* C26: winner-declared goes to every connection connected at the moment the
\* round is locked and names the connection that has just won; you-won is sent
\* in that same step, to that connection only; and over the whole round every
\* you-won is addressed to the winnerId of the round's winner-declared alone.
WinnerAnnouncementRecipients ==
  /\ [](\A i \in DOMAIN log :
          log[i].event = "you-won" =>
            /\ \E j \in DOMAIN log : log[j].event = "winner-declared"
            /\ \A j \in DOMAIN log :
                 log[j].event = "winner-declared" =>
                   log[i].to = {log[j].payload.winnerId})
  /\ [][ \A i \in DOMAIN emitted' :
           /\ emitted'[i].event = "winner-declared" =>
                /\ emitted'[i].to = connectedUsers
                /\ emitted'[i].payload.winnerId = ev'.socketId
                /\ emitted'[i].payload.questionId = stateManager.currentQuestion.id
                /\ ~stateManager.isLocked
                /\ stateManager'.isLocked
                /\ stateManager'.currentWinner = ev'.socketId
                /\ stateMachine'.currentState = "LOCKED"
                /\ Count(emitted', "you-won") = 1
           /\ emitted'[i].event = "you-won" =>
                /\ emitted'[i].to = {ev'.socketId}
                /\ stateManager'.currentWinner = ev'.socketId
                /\ Count(emitted', "winner-declared") = 1
     ]_vars

\* A winner has just been declared with another participant connected: both are
\* sent winner-declared, the winner alone you-won.
WinnerAnnouncementRecipientsWitness ==
  /\ Count(emitted, "winner-declared") = 1
  /\ Count(emitted, "you-won") = 1
  /\ Cardinality(connectedUsers) = MaxSockets
  /\ \A i \in DOMAIN emitted :
       emitted[i].event = "you-won" =>
         emitted[i].to = {stateManager.currentWinner}

\* the number v is less than 10^-TOLERANCE_DIGITS away from the integer a
Near(v, a) ==
  /\ ~IsNaN(v)
  /\ -Pow10(v.k) < (v.n - a * Pow10(v.k)) * Pow10(TOLERANCE_DIGITS)
  /\ (v.n - a * Pow10(v.k)) * Pow10(TOLERANCE_DIGITS) < Pow10(v.k)

\* C27: for every canonical answer a and every raw value x, validate(x, a)
\* returns true when x writes a number (as a number or as text) less than 1e-4
\* away from a, and false when x writes a number further away or writes no
\* number.
ValidatorCorrect ==
  [](ev.type = "validate" => returned = Bool(Near(ev.means, ev.correctAnswer)))

\* the raw value is absent, or is text that is empty once its white space is
\* trimmed, or is text that writes no number
EmptyAbsentOrUnparseable(raw, means) ==
  \/ raw \in {NULL, UNDEFINED}
  \/ /\ raw.t = "string"
     /\ \/ TrimEnd(TrimStart(raw.s)) = <<>>
        \/ IsNaN(means)

\* C28: for every canonical answer, 0 included, validate returns false for a
\* raw value that is null or undefined, that is empty after its white space is
\* trimmed, or that cannot be parsed as a number.
RejectsEmptyOrUnparseable ==
  [](( /\ ev.type = "validate"
       /\ EmptyAbsentOrUnparseable(ev.userAnswer, ev.means) )
     => returned = Bool(FALSE))

\* C29: a question returned by generate never has the id of a question
\* generated before it in the same run, also when both calls fall in the same
\* millisecond (here: of the question the call before it returned).
UniqueQuestionIds ==
  [](( /\ ev.type = "generate"
       /\ ev.after /= NULL )
     => returned.id /= ev.after)

\* C30: for every difficulty and every pair of operands drawn, a question
\* generated with operator - has its operands ordered, larger first, so that
\* its answer, their difference, is not negative.
SubtractionNonNegative ==
  [](( /\ ev.type = "generate"
       /\ returned.operator = "-" )
     => /\ returned.answer >= 0
        /\ returned.operands.num1 >= returned.operands.num2
        /\ returned.answer = returned.operands.num1 - returned.operands.num2
        /\ {returned.operands.num1, returned.operands.num2} = {ev.d1, ev.d2}
        /\ returned.question = <<returned.operands.num1, "-", returned.operands.num2>>)

\* A hard subtraction whose first operand was drawn smaller than the second
\* has been generated with the two exchanged.
SubtractionNonNegativeWitness ==
  /\ ev.type = "generate"
  /\ ev.difficulty = "hard"
  /\ returned.operator = "-"
  /\ ev.d1 < ev.d2
  /\ returned.operands = [num1 |-> ev.d2, num2 |-> ev.d1]
  /\ returned.answer = ev.d2 - ev.d1

\* C31: a generated question conforms to its difficulty: easy has + or - on
\* operands in 1..50, medium +, - or * on operands in 1..100, hard +, - or * on
\* operands in 10..100, and the operands of a * are at most 20.
ConformsToDifficulty ==
  [](ev.type = "generate" =>
       LET lo == IF ev.difficulty = "hard" THEN 10 ELSE 1
           hi == IF ev.difficulty = "easy" THEN 50 ELSE 100
           top == IF returned.operator = "*" THEN 20 ELSE hi
       IN  /\ returned.difficulty = ev.difficulty
           /\ returned.operator \in
                (IF ev.difficulty = "easy" THEN {"+", "-"} ELSE {"+", "-", "*"})
           /\ returned.operands.num1 \in lo..top
           /\ returned.operands.num2 \in lo..top)

\* A hard multiplication has been generated on the largest operands a
\* multiplication can have.
ConformsToDifficultyWitness ==
  /\ ev.type = "generate"
  /\ ev.difficulty = "hard"
  /\ returned.operator = "*"
  /\ returned.operands = [num1 |-> MULTIPLICATION_CAP, num2 |-> MULTIPLICATION_CAP]

\* C32: the answer of every generated question is the operator applied to the
\* operands the question reports, as an integer, and the expression text shows
\* those same operands and operator, after the exchange of a subtraction's
\* operands and the redraw of a multiplication's.
AnswerMatchesQuestion ==
  [](ev.type = "generate" =>
       LET a == returned.operands.num1
           b == returned.operands.num2
       IN  /\ returned.question = <<a, returned.operator, b>>
           /\ returned.operator = "+" => returned.answer = a + b
           /\ returned.operator = "-" => returned.answer = a - b
           /\ returned.operator = "*" => returned.answer = a * b
           /\ returned.operator \in {"+", "-", "*"}
           /\ returned.answer \in Int
           /\ returned.operator /= "*" => {a, b} = {ev.d1, ev.d2})

\* A multiplication of two different redrawn operands has been generated with
\* their product as its answer.
AnswerMatchesQuestionWitness ==
  /\ ev.type = "generate"
  /\ returned.operator = "*"
  /\ returned.operands.num1 > returned.operands.num2
  /\ returned.operands.num2 > ev.d2
  /\ returned.answer = returned.operands.num1 * returned.operands.num2

\* C33: getSubmissionsInOrder returns every recorded Submission of the round
\* exactly once, with the answer and timestamp recorded for it, in ascending
\* order of timestamp, Submissions of equal timestamp in the order they have in
\* the order list (recordSubmission appends to it, so that is arrival order).
SubmissionsOrdered ==
  [][ ev'.type = "getSubmissionsInOrder" =>
        LET sm == stateManager
            out == returned'
            position(s) == CHOOSE i \in DOMAIN sm.submissionOrder :
                             sm.submissionOrder[i].socketId = s
        IN  /\ Len(out) = Cardinality(DOMAIN sm.submissions)
            /\ { out[i].socketId : i \in DOMAIN out } = DOMAIN sm.submissions
            /\ \A i \in DOMAIN out :
                 /\ out[i].answer = sm.submissions[out[i].socketId].answer
                 /\ out[i].timestamp = sm.submissions[out[i].socketId].timestamp
            /\ \A i, j \in DOMAIN out :
                 i < j =>
                   /\ out[i].socketId /= out[j].socketId
                   /\ out[i].timestamp <= out[j].timestamp
                   /\ out[i].timestamp = out[j].timestamp =>
                        position(out[i].socketId) < position(out[j].socketId)
    ]_vars

\* Two Submissions recorded with the later timestamp first have been returned
\* with the earlier timestamp first.
SubmissionsOrderedWitness ==
  /\ ev.type = "getSubmissionsInOrder"
  /\ Len(ev.before.submissionOrder) = 2
  /\ ev.before.submissionOrder[1].timestamp > ev.before.submissionOrder[2].timestamp
  /\ Len(returned) = 2
  /\ returned[1].socketId = ev.before.submissionOrder[2].socketId
  /\ returned[1].timestamp < returned[2].timestamp

\* C34: the accessors getSubmissionsInOrder, getGracePeriodSubmissions, getStats
\* and getState are read-only: a call leaves the StateManager as it was, the
\* order list in particular, also when the Submissions were recorded with
\* timestamps that do not increase.
AccessorsReadOnly ==
  [][ ev'.type \in {"getSubmissionsInOrder", "getGracePeriodSubmissions",
                    "getStats", "getState"}
        => stateManager' = stateManager ]_vars

\* C35: setGracePeriod(d) rejects every negative d with an error and leaves the
\* grace period as it was; for a non-negative d the grace period becomes d.
\* The grace period is 100 at construction and no other call changes it, and
\* no setGracePeriod call changes the question, the Submissions, the lock or
\* the winner.
GracePeriodContract ==
  /\ [](ev.type = "init" => stateManager.GRACE_PERIOD_MS = 100)
  /\ [][ IF ev'.type = "setGracePeriod"
           THEN IF ev'.milliseconds < 0
                  THEN /\ returned' = Thrown("Grace period must be non-negative")
                       /\ stateManager' = stateManager
                  ELSE /\ returned' = UNDEFINED
                       /\ stateManager'.GRACE_PERIOD_MS = ev'.milliseconds
                       /\ stateManager' =
                            [stateManager EXCEPT
                               !.GRACE_PERIOD_MS = ev'.milliseconds]
           ELSE stateManager'.GRACE_PERIOD_MS = stateManager.GRACE_PERIOD_MS ]_vars

\* A negative duration rejected in a round with Submissions on record, after an
\* earlier call had set the grace period to 0.
GracePeriodContractWitness ==
  /\ ev.type = "setGracePeriod"
  /\ ev.milliseconds < 0
  /\ returned = Thrown("Grace period must be non-negative")
  /\ stateManager.GRACE_PERIOD_MS = 0
  /\ stateManager.submissionOrder /= <<>>

\* C36: in every reachable state the lifecycle machine agrees with the round:
\* it is ACTIVE exactly when a question is present and unlocked, LOCKED or
\* TRANSITIONING exactly when the round is locked, and IDLE exactly when no
\* question is present.
RoundLifecycleAgreement ==
  /\ stateMachine.currentState = "ACTIVE"
       <=> (stateManager.currentQuestion /= NULL /\ ~stateManager.isLocked)
  /\ stateMachine.currentState \in {"LOCKED", "TRANSITIONING"}
       <=> stateManager.isLocked
  /\ stateMachine.currentState = "IDLE"
       <=> stateManager.currentQuestion = NULL

\* C37: the handoff callback scheduled when a winner is declared runs only
\* while the machine is in LOCKED for the round that scheduled it, that is
\* while that round is still locked with its rotation pending; it never moves
\* the machine in a later round.
HandoffWithinRound ==
  [][ ev'.type = "handoff-timer"
        => /\ stateMachine.currentState = "LOCKED"
           /\ stateManager.isLocked
           /\ RotationPending ]_vars

\* C38: forceNewQuestion is all-or-nothing: for every difficulty argument,
\* either a new question is installed, the round is unlocked and new-question
\* is broadcast, or the StateManager, the lifecycle machine and the pending
\* rotation timer are left exactly as before the call; a locked round is never
\* left without a pending rotation.
ForceNewQuestionAllOrNothing ==
  [][ ev'.type = "forceNewQuestion"
        => /\ \/ /\ questionCount' = questionCount + 1
                 /\ stateManager'.currentQuestion /= NULL
                 /\ ~stateManager'.isLocked
                 /\ Count(emitted', "new-question") = 1
              \/ /\ stateManager' = stateManager
                 /\ stateMachine' = stateMachine
                 /\ timers' = timers
           /\ stateManager'.isLocked => RotationPending' ]_vars

Broadcasts == {"new-question", "winner-declared", "user-count"}

\* the messages of a step addressed to one connection
PerConnection(msgs) == { i \in DOMAIN msgs : msgs[i].event \notin Broadcasts }

\* C39: every submit-answer, in any state, produces exactly one per-connection
\* reply, addressed to the sender alone and one of submission-error,
\* submission-rejected, submission-result and you-won; no other connection is
\* sent a per-connection reply.
OneReplyPerSubmission ==
  [][ IsSubmit(ev')
        => /\ Cardinality(PerConnection(emitted')) = 1
           /\ \A i \in PerConnection(emitted') :
                /\ emitted'[i].to = {ev'.socketId}
                /\ emitted'[i].event \in {"submission-error", "submission-rejected",
                                         "submission-result", "you-won"} ]_vars

====
